---- MODULE Spec2Model ----
(***************************************************************************)
(* Client-side governance protocol of ADAM (blockchain/python):            *)
(*   crew_with_blockchain.py        the detection cycle and monitoring loop *)
(*   crew_blockchain_integration.py CrewBlockchainIntegrator                *)
(*   blockchain_client.py           BlockchainClient (ledger transport)     *)
(* The ledger contracts themselves are not part of the Python sources; the  *)
(* Ledger* operators model them from the design document.                   *)
(***************************************************************************)
EXTENDS Integers, Sequences, FiniteSets, TLC

\* ------------------------------------------------------------------ bounds
MaxPasses == 2      \* monitoring passes explored
MaxFaults == 1      \* injected failures (revert, timeout, missing event, ...)
MaxRetries == 1     \* direct repeated calls of the integrator
MaxEligible == 4    \* largest total_eligible given to the Consensus Evaluator
MaxReplays == 1     \* captured signatures submitted again
MaxAblationPasses == 2  \* passes of an ablation detector explored

\* ------------------------------------------------------- program constants
ABSOLUTE_EMERGENCY_PPM == 5000
CHECK_INTERVAL_SECONDS == 15
ALERT_COOLDOWN_SECONDS == 300
same_event_window == 30
consensus_percentage == 51
CrewSize == 4
SEVERITY_SAFE == 0
SEVERITY_WARNING == 1
SEVERITY_CRITICAL == 2
DECISION_TYPE_ANOMALY_DETECTION == 1

\* Python's None / an assigned value
None == << >>
Some(x) == << x >>
Val(o) == o[1]
\* faulty variant: only None is falsy
Truthy_notNone(o) == o # None

\* Python truthiness of an Optional[int]: None and 0 are falsy
Truthy(o) == o # None /\ Val(o) # 0

\* ------------------------------------------------------------- sensor data
\* the trace ids of readings ("": the reading has neither trace_id nor id)
TraceIds == { "t1", "t2" }
NodeIds == {"node1"}
\* get_recent_readings: batches of methane_ppm values of one node (none, all
\* below the threshold, one at the threshold)
Batches == { << >>, << 1000 >>, << 1000, 5000 >> }

RECURSIVE MaxSeq(_)
MaxSeq(s) ==
  IF Len(s) = 1 THEN s[1]
  ELSE LET m == MaxSeq(Tail(s)) IN IF s[1] >= m THEN s[1] ELSE m

\* faulty variant: the threshold comparison is lost, every reading counts
AtOrAboveEmergency_always(ppm) == ppm >= 0

\* the comparison `ppm >= ABSOLUTE_EMERGENCY_PPM` of the detector and of the
\* governance guards
AtOrAboveEmergency(ppm) == ppm >= ABSOLUTE_EMERGENCY_PPM

detect_anomalies_from_readings(rs) == SelectSeq(rs, AtOrAboveEmergency)

\* ---------------------------------------------------------- event identity
\* f"{timestamp}-{node_id}" hashed; keccak modelled as an injective tag
_generate_event_id(timestamp, node_id) == << "keccak", timestamp, "-", node_id >>

\* the same-event window a timestamp falls into
Bucket(timestamp) == timestamp \div same_event_window

\* two detections of one event: same node, same same-event window
SameEvent(a, b) ==
  a.node_id = b.node_id /\ Bucket(a.timestamp) = Bucket(b.timestamp)

\* ------------------------------------------------------- reasoner payloads
\* A JSON document is a sequence of <<key, type, value>> items; a plain string
\* is a document with one item whose key is "".
Item(k, t, v) == << k, t, v >>
PyDict(items) == [type |-> "dict", items |-> items]
PyStr(text) == [type |-> "str", items |-> << Item("", "str", text) >>]

ReasonerOutputs ==
  { PyDict(<< Item("severity", "str", "critical"), Item("explanation", "str", "leak") >>),
    PyDict(<< Item("severity", "int", "2"), Item("explanation", "str", "leak") >>),
    PyStr("leak") }

\* exception branch of the reasoner call
FallbackReport(msg) ==
  PyDict(<< Item("severity", "str", "critical"), Item("explanation", "str", msg) >>)
FailureMessage == "LLM reasoner failed"

KeyOrder == << "", "explanation", "severity" >>
HasKey(d, k) == \E i \in DOMAIN d.items : d.items[i][1] = k
Get(d, k) == LET i == CHOOSE j \in DOMAIN d.items : d.items[j][1] = k IN d.items[i]

\* faulty variant: the items are serialized in insertion order
json_dumps_unsorted(d) == d.items

\* json.dumps(decision_data, sort_keys=True)
RECURSIVE SortedFrom(_, _)
SortedFrom(d, n) ==
  IF n > Len(KeyOrder) THEN << >>
  ELSE (IF HasKey(d, KeyOrder[n]) THEN << Get(d, KeyOrder[n]) >> ELSE << >>)
       \o SortedFrom(d, n + 1)
json_dumps_sorted(d) == SortedFrom(d, 1)

_generate_decision_hash(decision_data) == << "keccak", json_dumps_sorted(decision_data) >>

\* faulty variant: the comparison is case-sensitive
Lower_identity(s) == s

\* str.lower() on the spellings that occur
Lower(s) ==
  CASE s = "Critical" -> "critical"
    [] s = "CRITICAL" -> "critical"
    [] s = "Warning" -> "warning"
    [] s = "SAFE" -> "safe"
    [] s = "Normal" -> "normal"
    [] s = "Emergency" -> "emergency"
    [] OTHER -> s

_map_severity(severity_str) ==
  LET l == Lower(severity_str) IN
  CASE l = "safe" -> SEVERITY_SAFE
    [] l = "normal" -> SEVERITY_SAFE
    [] l = "warning" -> SEVERITY_WARNING
    [] l = "critical" -> SEVERITY_CRITICAL
    [] l = "emergency" -> SEVERITY_CRITICAL
    [] OTHER -> SEVERITY_WARNING

\* decision_data.get("severity", "critical") followed by .lower():
\* AttributeError on a str payload and on a non-string severity
SeverityRaises(decision_data) ==
  \/ decision_data.type # "dict"
  \/ HasKey(decision_data, "severity") /\ Get(decision_data, "severity")[2] # "str"
SeverityOf(decision_data) ==
  _map_severity(IF HasKey(decision_data, "severity")
                THEN Get(decision_data, "severity")[3] ELSE "critical")

\* ------------------------------------------------------ Consensus Evaluator
\* evaluate(votes, total_eligible, consensus_percentage) of the design (4.6);
\* votes is the log of <<voter, approved>> in arrival order, one per voter
Vote(voter, approved) == [voter |-> voter, approved |-> approved]
Percentages == 1 .. 100

\* faulty variant: the newest vote speaks for all votes cast
CountVotes_lastOnly(vs, approved) ==
  IF vs = << >> THEN 0
  ELSE IF vs[Len(vs)].approved = approved THEN Len(vs) ELSE 0

\* count(approved = true) / count(approved = false) over the vote log
RECURSIVE CountVotes(_, _)
CountVotes(vs, approved) ==
  IF vs = << >> THEN 0
  ELSE (IF Head(vs).approved = approved THEN 1 ELSE 0) + CountVotes(Tail(vs), approved)

\* faulty variant: no special case for an empty denominator
EmptyDenominatorFails_never(total) == FALSE

\* quorum over an empty denominator is FAIL
EmptyDenominatorFails(total) == total = 0

\* faulty variant: the share is taken of the votes cast
PassCondition_ofCast(yes, no, total, pct) ==
  yes + no > 0 /\ yes * 100 >= pct * (yes + no)

\* count(approved=true) / total_eligible * 100 >= consensus_percentage
\* and total_eligible > 0
PassCondition(yes, no, total, pct) == total > 0 /\ yes * 100 >= pct * total

\* faulty variant: the disapproving share is taken of the votes cast
FailCondition_ofCast(yes, no, total, pct) ==
  yes + no > 0 /\ no * 100 > (100 - pct) * (yes + no)

\* faulty variant: FAIL already at equality
FailCondition_nonstrict(yes, no, total, pct) == no * 100 >= (100 - pct) * total

\* count(approved=false) / total_eligible * 100 > 100 - consensus_percentage
FailCondition(yes, no, total, pct) == no * 100 > (100 - pct) * total

evaluate(vs, total, pct) ==
  LET yes == CountVotes(vs, TRUE)
      no == CountVotes(vs, FALSE)
  IN IF EmptyDenominatorFails(total) THEN "FAIL"
     ELSE IF PassCondition(yes, no, total, pct) THEN "PASS"
     ELSE IF FailCondition(yes, no, total, pct) THEN "FAIL"
     ELSE "PENDING"


\* ------------------------------------------------------------------- state
VARIABLES
  private_key,        \* AGENT_PRIVATE_KEY: "valid", "invalid" or "missing"
  enable_blockchain,  \* CrewBlockchainIntegrator.enable_blockchain
  pc,                 \* position of the monitoring loop / detection cycle
  now,                \* wall clock (seconds)
  passes,             \* completed passes of run_monitoring_loop
  readings,           \* the batch read in this pass
  max_ppm,            \* Optional: max over the anomalies
  event_data,         \* Optional: event_data (timestamp, node_id) of this pass
  crew_id,            \* Optional[int] local of run_detection_...
  report,             \* Optional: reasoner output (or fallback)
  decision_hash,      \* Optional: local of validate_critical_decision
  severity,           \* Optional: local of validate_critical_decision
  logged_id,          \* Optional: decision_id local of validate_critical_decision
  request_id,         \* Optional: local of validate_critical_decision
  decision_id,        \* Optional[int] local of run_detection_...
  consensus_passed,   \* Optional[bool]: what has_consensus_passed returned (None: not read)
  sign_failed,        \* sign_decision raised in this pass
  notified,           \* send_email_alert was invoked in this pass
  calls,              \* state-changing ledger calls submitted in this pass
  \* the ledger
  firstId,            \* first id the ledger assigns
  crews,              \* CrewRegistry: event ids, crew id = firstId + index - 1
  decisions,          \* DecisionLogger records
  requests,           \* ConsensusValidator records
  nonce,              \* DecisionLogger nonce of this agent
  \* bookkeeping
  faults,             \* failures injected so far
  retries,            \* direct calls of the integrator so far
  formLog,            \* every validate_crew_formation call, in order
  pending,            \* events whose pass ended with consensus not passed
  signLog,            \* every signature sign_decision produced, in order
  replayLog,          \* every captured signature submitted again, in order
  voteLog,            \* every cast_vote this agent submitted, in order
  in_crew,            \* `self.client.address in crew_members` (the configured addresses)
  thresholds,         \* Optional: what get_governance_thresholds gave at start-up
  returned,           \* Optional: (alert_sent, report, blockchain_info) the pass returned
  interrupted_at,     \* where a KeyboardInterrupt stopped the loop ("": it did not)
  reads,              \* ledger reads (calls) made in this pass, with the number of
                      \* transactions submitted before each
  closes,             \* number of close_client calls
  integrator,         \* Optional: the object CrewBlockchainIntegrator.__init__ built
  direct,             \* Optional: the last call made on the integrator outside the
                      \* loop, and what it returned
  \* the ablation detectors
  _last_alert_ts,     \* trace id -> time of the last acceptance (None: not in the map)
  new_anomalies,      \* new_anomalies of the last run_detection_once
  acceptances,           \* every acceptance of a reading with a trace id, in order
  \* the Consensus Evaluator
  votes,              \* vote log given to evaluate
  total_eligible,     \* its total_eligible
  percentage,         \* its consensus_percentage
  verdict             \* what evaluate returned

cycleVars == << readings, max_ppm, event_data, crew_id, report, decision_hash, severity,
                logged_id, request_id, decision_id, consensus_passed, sign_failed,
                notified, calls >>
ledgerVars == << firstId, crews, decisions, requests, nonce >>
pureVars == << votes, total_eligible, percentage, verdict >>
ablationVars == << _last_alert_ts, new_anomalies, acceptances >>
vars == << private_key, enable_blockchain, pc, now, passes, cycleVars, ledgerVars,
           faults, retries, formLog, pending, signLog, replayLog, pureVars,
           voteLog, in_crew, thresholds, returned, interrupted_at,
           reads, closes, integrator, direct, ablationVars >>

\* ------------------------------------------------- the ledger (transactions)
\* what the client observes of a submitted transaction
TxOutcomes == { "confirmed", "reverted", "timeout_mined", "timeout_lost" }
Mined(o) == o \in { "confirmed", "timeout_mined" }
TimedOut(o) == o \in { "timeout_mined", "timeout_lost" }
\* an injected failure uses up the failure budget
Cost(o, found) == IF o # "confirmed" \/ ~found THEN 1 ELSE 0
Call(op, o) == [op |-> op, outcome |-> o]
Ops(cs) == { cs[i].op : i \in DOMAIN cs }
Submitted(op) == op \in Ops(calls)
Confirmed(op) == \E i \in DOMAIN calls : calls[i].op = op /\ calls[i].outcome = "confirmed"

\* CrewRegistry.formCrew: one crew per event id, the existing one is kept
HasCrew(cs, e) == \E i \in DOMAIN cs : cs[i] = e
LedgerFormCrew(cs, e) == IF HasCrew(cs, e) THEN cs ELSE Append(cs, e)
LedgerCrewId(cs, e) == firstId + (CHOOSE i \in DOMAIN cs : cs[i] = e) - 1

\* ids and records of DecisionLogger / ConsensusValidator
IdOfIndex(i) == firstId + i - 1
IndexOfId(id) == id - firstId + 1
LedgerLogDecision(ds, c, h, sev, sigs) ==
  Append(ds, [crew_id |-> c, decision_hash |-> h, severity |-> sev,
              signatures |-> sigs, executed |-> FALSE])
\* faulty variant: the ledger does not look at the nonce of a signature
LedgerAcceptsSignatures_any(sigs) == TRUE

\* the ledger accepts a signature only at the signer's current nonce
LedgerAcceptsSignatures(sigs) == \A i \in DOMAIN sigs : sigs[i].nonce = nonce
\* the same verification against the nonce n the ledger holds when it runs
LedgerAcceptsSignaturesAt(sigs, n) == \A i \in DOMAIN sigs : sigs[i].nonce = n
LedgerRequestConsensus(rs, c, h) ==
  Append(rs, [crew_id |-> c, proposal_hash |-> h, yes |-> 0, no |-> 0, self_voted |-> FALSE])
LedgerHasRequest(id) == IndexOfId(id) \in DOMAIN requests
LedgerHasDecision(id) == IndexOfId(id) \in DOMAIN decisions
LedgerCastVote(rs, i, approved, isSelf) ==
  [rs EXCEPT ![i].yes = IF approved THEN @ + 1 ELSE @,
             ![i].no = IF approved THEN @ ELSE @ + 1,
             ![i].self_voted = @ \/ isSelf]
\* ConsensusValidator.hasConsensusPassed over the crew's CrewSize members
LedgerHasConsensusPassed(id) ==
  /\ LedgerHasRequest(id)
  /\ requests[IndexOfId(id)].yes * 100 >= consensus_percentage * CrewSize
\* GovernanceRules.isCritical: the on-chain critical threshold is set by
\* governance, not by this client; the answers the client can receive
LedgerIsCriticalAnswers(ppm) == BOOLEAN
\* BlockchainClient.is_critical: the answer of the read, or None when the
\* read raises (node unreachable)
is_critical(ppm) == { Some(b) : b \in LedgerIsCriticalAnswers(ppm) } \cup { None }

\* BlockchainClient._extract_*_id_from_receipt: the id of the event, else 0
_extract_crew_id_from_receipt(found, id) == IF found THEN id ELSE 0
_extract_decision_id_from_receipt(found, id) == IF found THEN id ELSE 0
_extract_request_id_from_receipt(found, id) == IF found THEN id ELSE 0

\* -------------------------------------------------------------------- Init
\* faulty variant: the except branch of __init__ leaves enable_blockchain set
CrewBlockchainIntegrator_init_flagKept(requested, key) ==
  IF ~requested THEN Some([enable_blockchain |-> FALSE, client |-> None])
  ELSE IF key = "missing" THEN None
  ELSE IF key = "valid"
  THEN Some([enable_blockchain |-> TRUE, client |-> Some("BlockchainClient")])
  ELSE Some([enable_blockchain |-> TRUE, client |-> None])

\* CrewBlockchainIntegrator.__init__: the object it builds, or None when it
\* raises (ValueError: no private key). `requested` is the enable_blockchain
\* argument and the ENABLE_BLOCKCHAIN setting; BlockchainClient(...) raises on
\* an invalid key and the except branch falls back to simulation mode
CrewBlockchainIntegrator_init(requested, key) ==
  IF ~requested THEN Some([enable_blockchain |-> FALSE, client |-> None])
  ELSE IF key = "missing" THEN None
  ELSE IF key = "valid"
  THEN Some([enable_blockchain |-> TRUE, client |-> Some("BlockchainClient")])
  ELSE Some([enable_blockchain |-> FALSE, client |-> None])

\* CrewBlockchainIntegrator.__init__ (and initialize_blockchain around it):
\* governance is on only if it is requested, a key is configured and the
\* client could be built from it (Account.from_key raises on an invalid key)
init_enable_blockchain(requested, key) ==
  LET built == CrewBlockchainIntegrator_init(requested, key)
  IN built # None /\ Val(built).enable_blockchain

\* the hard-coded thresholds of get_governance_thresholds (the ledger of the
\* model is deployed with the same values)
DefaultThresholds ==
  [critical |-> 5000, warning |-> 3000, same_event_window |-> same_event_window,
   consensus_percentage |-> consensus_percentage]

\* BlockchainClient.get_thresholds: four reads of GovernanceRules, no
\* exception handling; the dict has no staleness key
get_thresholds(reachable) ==
  IF reachable
  THEN [raised |-> FALSE, values |-> Some(DefaultThresholds), fresh |-> TRUE, stale |-> FALSE]
  ELSE [raised |-> TRUE, values |-> None, fresh |-> FALSE, stale |-> FALSE]

\* CrewBlockchainIntegrator.get_governance_thresholds
get_governance_thresholds(enabled, reachable) ==
  IF ~enabled
  THEN [raised |-> FALSE, values |-> Some(DefaultThresholds), fresh |-> FALSE, stale |-> FALSE]
  ELSE get_thresholds(reachable)

\* initialize_blockchain: the thresholds are read only when governance is on,
\* and an exception of the read leaves the program without an integrator
initialize_blockchain(requested, key, reachable) ==
  LET enabled == init_enable_blockchain(requested, key)
      th == IF enabled THEN Some(get_governance_thresholds(enabled, reachable)) ELSE None
      discarded == th # None /\ Val(th).raised
  IN [thresholds |-> th, enable_blockchain |-> enabled /\ ~discarded,
      integrator |-> IF discarded THEN None
                     ELSE CrewBlockchainIntegrator_init(requested, key)]

Init ==
  /\ private_key \in { "valid", "invalid", "missing" }
  /\ \E requested \in BOOLEAN, reachable \in BOOLEAN :
       LET started == initialize_blockchain(requested, private_key, reachable)
       IN /\ enable_blockchain = started.enable_blockchain
          /\ thresholds = started.thresholds
          /\ integrator = started.integrator
  /\ reads = << >>
  /\ closes = 0
  /\ direct = None
  /\ _last_alert_ts = [t \in TraceIds |-> None]
  /\ new_anomalies = << >>
  /\ acceptances = << >>
  /\ in_crew \in BOOLEAN
  /\ voteLog = << >>
  /\ returned = None
  /\ interrupted_at = ""
  /\ pc = "idle"
  /\ now = 0
  /\ passes = 0
  /\ readings = << >>
  /\ max_ppm = None
  /\ event_data = None
  /\ crew_id = None
  /\ report = None
  /\ decision_hash = None
  /\ severity = None
  /\ logged_id = None
  /\ request_id = None
  /\ decision_id = None
  /\ consensus_passed = None
  /\ sign_failed = FALSE
  /\ notified = FALSE
  /\ calls = << >>
  /\ firstId \in { 0, 1 }
  /\ crews = << >>
  /\ decisions = << >>
  /\ requests = << >>
  /\ nonce = 0
  /\ faults = 0
  /\ retries = 0
  /\ formLog = << >>
  /\ pending = { }
  /\ signLog = << >>
  /\ replayLog = << >>
  /\ votes = << >>
  /\ total_eligible = CrewSize
  /\ percentage = consensus_percentage
  /\ verdict = evaluate(<< >>, CrewSize, consensus_percentage)


\* ------------------------------------------------------ the detection cycle
\* blockchain_info as the pass fills it in: crew_id under `if success and
\* crew_id:`, decision_id and consensus_passed under `if decision_id:`
blockchain_info(crew, dec, cons) ==
  [crew_id |-> crew,
   decision_id |-> IF Truthy(dec) THEN dec ELSE None,
   consensus_passed |-> IF Truthy(dec) THEN cons ELSE None]

\* the returns `return <alert_sent>, <text>, blockchain_info` of the pass
Return(sent, info) == Some([alert_sent |-> sent, blockchain_info |-> info])

\* faulty variant: the except branch of the e-mail drops what was recorded
EmailFailureResult_bare(info) == Return(FALSE, blockchain_info(None, None, None))

\* `except Exception as e: return False, f"...Email error: {e}", blockchain_info`
EmailFailureResult(info) == Return(FALSE, info)

\* run_detection_with_blockchain_validation, up to max_ppm: the two early
\* returns ("No readings found.", "No anomalies found.") end the pass
StartPass ==
  /\ pc = "idle"
  /\ passes < MaxPasses
  /\ \E batch \in Batches :
       LET anomalies == detect_anomalies_from_readings(batch) IN
       /\ readings' = batch
       /\ IF batch = << >> \/ anomalies = << >>
          THEN /\ pc' = "done" /\ max_ppm' = None
               /\ returned' = Return(FALSE, blockchain_info(None, None, None))
          ELSE /\ pc' = "form" /\ max_ppm' = Some(MaxSeq(anomalies))
               /\ returned' = returned
  /\ UNCHANGED << direct, closes, integrator, ablationVars, reads, in_crew, thresholds, interrupted_at, voteLog, pureVars, replayLog, signLog, private_key, enable_blockchain, now, passes, event_data, crew_id, report,
                  decision_hash, severity, logged_id, request_id, decision_id,
                  consensus_passed, sign_failed, notified, calls, ledgerVars,
                  faults, retries, formLog, pending >>

\* BlockchainClient.form_crew: the ledger after the transaction
form_crew_ledger(o, e) == IF Mined(o) THEN LedgerFormCrew(crews, e) ELSE crews

\* CrewBlockchainIntegrator.validate_crew_formation: (success, crew_id);
\* every exception of form_crew is turned into (False, None)
validate_crew_formation(o, found, e) ==
  IF ~enable_blockchain THEN << TRUE, None >>
  ELSE IF o = "confirmed"
  THEN << TRUE, Some(_extract_crew_id_from_receipt(found,
                       LedgerCrewId(form_crew_ledger(o, e), e))) >>
  ELSE << FALSE, None >>

FormEntry(ed, o, res) ==
  [timestamp |-> ed.timestamp, node_id |-> ed.node_id,
   event_id |-> _generate_event_id(ed.timestamp, ed.node_id),
   outcome |-> o, success |-> res[1], crew_id |-> res[2], reread |-> FALSE,
   agent |-> "self"]

\* faulty variant: a crew id is assumed when form_crew gave none
CrewIdKept_assumed(res) == IF res[1] /\ Truthy(res[2]) THEN res[2] ELSE Some(1)

\* the guard `if success and crew_id:` of the caller
CrewIdKept(res) == IF res[1] /\ Truthy(res[2]) THEN res[2] ELSE None

\* crew formation of the pass: event_data is built from the clock and the
\* first anomaly's node, then validate_crew_formation is called
FormCrewStep ==
  /\ pc = "form"
  /\ IF enable_blockchain /\ AtOrAboveEmergency(Val(max_ppm))
     THEN \E node \in NodeIds, o \in TxOutcomes, found \in BOOLEAN :
            LET ed == [timestamp |-> now, node_id |-> node]
                e == _generate_event_id(ed.timestamp, ed.node_id)
                res == validate_crew_formation(o, found, e)
            IN /\ faults + Cost(o, found) <= MaxFaults
               /\ (~found => o = "confirmed")
               /\ faults' = faults + Cost(o, found)
               /\ event_data' = Some(ed)
               /\ crews' = form_crew_ledger(o, e)
               /\ calls' = Append(calls, Call("form_crew", o))
               /\ formLog' = Append(formLog, FormEntry(ed, o, res))
               /\ crew_id' = CrewIdKept(res)
     ELSE UNCHANGED << faults, event_data, crews, calls, formLog, crew_id >>
  /\ pc' = "reason"
  /\ UNCHANGED << direct, closes, integrator, ablationVars, reads, in_crew, thresholds, interrupted_at, voteLog, returned, pureVars, replayLog, signLog, private_key, enable_blockchain, now, passes, readings, max_ppm, report,
                  decision_hash, severity, logged_id, request_id, decision_id,
                  consensus_passed, sign_failed, notified, firstId,
                  decisions, requests, nonce, retries, pending >>

\* a caller of the integrator repeats validate_crew_formation with the
\* event_data of an earlier call (the retry of a formation)
RetryFormation ==
  /\ pc = "idle"
  /\ enable_blockchain
  /\ retries < MaxRetries
  /\ \E i \in DOMAIN formLog, o \in TxOutcomes, found \in BOOLEAN :
       LET ed == [timestamp |-> formLog[i].timestamp, node_id |-> formLog[i].node_id]
           e == _generate_event_id(ed.timestamp, ed.node_id)
           res == validate_crew_formation(o, found, e)
       IN /\ faults + Cost(o, found) <= MaxFaults
          /\ (~found => o = "confirmed")
          /\ faults' = faults + Cost(o, found)
          /\ crews' = form_crew_ledger(o, e)
          /\ formLog' = Append(formLog, FormEntry(ed, o, res))
  /\ retries' = retries + 1
  /\ UNCHANGED << direct, closes, integrator, ablationVars, reads, in_crew, thresholds, interrupted_at, voteLog, returned, pureVars, replayLog, signLog, private_key, enable_blockchain, pc, now, passes, cycleVars, firstId,
                  decisions, requests, nonce, pending >>

\* the reasoner call and its exception branch
Reason ==
  /\ pc = "reason"
  /\ \/ \E r \in ReasonerOutputs : report' = Some(r)
     \/ report' = Some(FallbackReport(FailureMessage))
  /\ pc' = "validate"
  /\ UNCHANGED << direct, closes, integrator, ablationVars, reads, in_crew, thresholds, interrupted_at, voteLog, returned, pureVars, replayLog, signLog, private_key, enable_blockchain, now, passes, readings, max_ppm, event_data, crew_id,
                  decision_hash, severity, logged_id, request_id, decision_id,
                  consensus_passed, sign_failed, notified, calls, ledgerVars,
                  faults, retries, formLog, pending >>


\* faulty variant: the nonce is left out of the signed message
sign_decision_nonceless(h, n) == [hash |-> h, nonce |-> 0]

\* BlockchainClient.sign_decision: the signature over (decision_hash, nonce),
\* the nonce being the ledger's at signing time
sign_decision(h, n) == [hash |-> h, nonce |-> n]

\* faulty variant: a failed signing is swallowed and the call goes on unsigned
AbortsOnSigningError_never(signOk) == FALSE

\* the try/except of validate_critical_decision: an exception of
\* sign_decision ends the call with (False, None, None)
AbortsOnSigningError(signOk) == ~signOk

\* a ledger read (an eth_call) and the number of transactions this pass had
\* submitted when it was made
Read(op) == [op |-> op, after |-> Len(calls)]

\* validate_critical_decision up to log_decision, with the caller's guard
\* `blockchain_integrator.enable_blockchain and crew_id` and `max_ppm >= ...`
LogDecisionStep ==
  /\ pc = "validate"
  /\ LET ppm == Val(max_ppm)
         h == _generate_decision_hash(Val(report))
     IN
     IF ~(enable_blockchain /\ Truthy(crew_id) /\ AtOrAboveEmergency(ppm))
     THEN /\ pc' = "alert"
          /\ UNCHANGED << decision_hash, severity, logged_id, sign_failed, calls,
                          decisions, nonce, faults, signLog, reads >>
     ELSE \E answer \in is_critical(ppm) :
     IF answer = None
     THEN \* line 162 is outside the try of line 166: the exception leaves
          \* validate_critical_decision and the pass, run_monitoring_loop logs it
          /\ faults < MaxFaults
          /\ faults' = faults + 1
          /\ pc' = "done"
          /\ reads' = Append(reads, Read("is_critical"))
          /\ UNCHANGED << decision_hash, severity, logged_id, sign_failed, calls,
                          decisions, nonce, signLog >>
     ELSE LET critical == Val(answer) IN
     IF ~critical
     THEN /\ pc' = "alert"
          /\ reads' = Append(reads, Read("is_critical"))
          /\ UNCHANGED << decision_hash, severity, logged_id, sign_failed, calls,
                          decisions, nonce, faults, signLog >>
     ELSE IF SeverityRaises(Val(report))
     THEN /\ pc' = "alert"
          /\ decision_hash' = Some(h)
          /\ reads' = Append(reads, Read("is_critical"))
          /\ UNCHANGED << severity, logged_id, sign_failed, calls, decisions, nonce, faults,
                          signLog >>
     ELSE \E signOk \in BOOLEAN, o \in TxOutcomes, found \in BOOLEAN :
            LET sev == SeverityOf(Val(report))
                cost == (IF signOk THEN 0 ELSE 1) + Cost(o, found)
                sigs == IF signOk THEN << sign_decision(h, nonce) >> ELSE << >>
                accepted == LedgerAcceptsSignatures(sigs)
                actual == IF accepted THEN o ELSE "reverted"
                ds == IF Mined(actual)
                      THEN LedgerLogDecision(decisions, Val(crew_id), h, sev, sigs)
                      ELSE decisions
            IN /\ faults + cost <= MaxFaults
               /\ (~found => o = "confirmed")
               /\ (~accepted => o = "confirmed")
               /\ faults' = faults + cost
               /\ decision_hash' = Some(h)
               /\ severity' = Some(sev)
               /\ sign_failed' = ~signOk
               /\ reads' = reads \o << Read("is_critical"), Read("get_nonce") >>
               /\ signLog' = IF signOk
                             THEN Append(signLog, [hash |-> h, nonce |-> nonce,
                                                   signature |-> sign_decision(h, nonce),
                                                   stale |-> ~accepted])
                             ELSE signLog
               /\ IF AbortsOnSigningError(signOk)
                  THEN /\ o = "confirmed" /\ found
                       /\ pc' = "alert"
                       /\ UNCHANGED << logged_id, calls, decisions, nonce >>
                  ELSE /\ calls' = Append(calls, Call("log_decision", actual))
                       /\ decisions' = ds
                       /\ nonce' = IF Mined(actual) THEN nonce + 1 ELSE nonce
                       /\ IF actual = "confirmed"
                          THEN /\ logged_id' = Some(_extract_decision_id_from_receipt(
                                                      found, IdOfIndex(Len(ds))))
                               /\ pc' = "request"
                          ELSE /\ logged_id' = None
                               /\ pc' = "alert"
  /\ UNCHANGED << direct, closes, integrator, ablationVars, in_crew, thresholds, interrupted_at, voteLog, returned, pureVars, replayLog, private_key, enable_blockchain, now, passes, readings, max_ppm, event_data, crew_id,
                  report, request_id, decision_id, consensus_passed, notified,
                  firstId, crews, requests, retries, formLog, pending >>

\* validate_critical_decision: request_consensus with proposal_hash = decision_hash
RequestConsensusStep ==
  /\ pc = "request"
  /\ \E o \in TxOutcomes, found \in BOOLEAN :
       LET rs == IF Mined(o)
                 THEN LedgerRequestConsensus(requests, Val(crew_id), Val(decision_hash))
                 ELSE requests
       IN /\ faults + Cost(o, found) <= MaxFaults
          /\ (~found => o = "confirmed")
          /\ faults' = faults + Cost(o, found)
          /\ requests' = rs
          /\ calls' = Append(calls, Call("request_consensus", o))
          /\ IF o = "confirmed"
             THEN /\ request_id' = Some(_extract_request_id_from_receipt(
                                          found, IdOfIndex(Len(rs))))
                  /\ pc' = "vote"
             ELSE /\ request_id' = None
                  /\ pc' = "alert"
  /\ UNCHANGED << direct, closes, integrator, ablationVars, reads, in_crew, thresholds, interrupted_at, voteLog, returned, pureVars, replayLog, signLog, private_key, enable_blockchain, now, passes, readings, max_ppm, event_data, crew_id,
                  report, decision_hash, severity, logged_id, decision_id,
                  consensus_passed, sign_failed, notified, firstId,
                  crews, decisions, nonce, retries, formLog, pending >>

\* validate_critical_decision: `if self.client.address in crew_members:` cast_vote
CastVoteStep ==
  /\ pc = "vote"
  /\ \E o \in TxOutcomes :
       IF in_crew
       THEN LET rid == Val(request_id)
                i == IndexOfId(rid)
                accepted == LedgerHasRequest(rid) /\ ~requests[i].self_voted
                actual == IF accepted THEN o ELSE "reverted"
            IN /\ faults + Cost(o, TRUE) <= MaxFaults
               /\ (~accepted => o = "confirmed")
               /\ faults' = faults + Cost(o, TRUE)
               /\ requests' = IF Mined(actual)
                              THEN LedgerCastVote(requests, i, TRUE, TRUE) ELSE requests
               /\ calls' = Append(calls, Call("cast_vote", actual))
               /\ voteLog' = Append(voteLog, [request_id |-> rid, approved |-> TRUE])
               /\ pc' = IF actual = "confirmed" THEN "poll" ELSE "alert"
       ELSE /\ o = "confirmed"
            /\ pc' = "poll"
            /\ UNCHANGED << faults, requests, calls, voteLog >>
  /\ UNCHANGED << direct, closes, integrator, ablationVars, reads, in_crew, thresholds, interrupted_at, returned, pureVars, replayLog, signLog, private_key, enable_blockchain, now, passes, readings, max_ppm, event_data, crew_id,
                  report, decision_hash, severity, logged_id, request_id, decision_id,
                  consensus_passed, sign_failed, notified, firstId,
                  crews, decisions, nonce, retries, formLog, pending >>

\* another crew member approves the newest request between this agent's
\* request_consensus and its has_consensus_passed read (a disapproval changes
\* no value this client reads: hasConsensusPassed counts approvals only)
OtherVote ==
  /\ pc = "poll"
  /\ requests # << >>
  /\ LET i == Len(requests)
         others == requests[i].yes + requests[i].no
                   - (IF requests[i].self_voted THEN 1 ELSE 0)
     IN /\ others < CrewSize - 1
        /\ requests' = LedgerCastVote(requests, i, TRUE, FALSE)
  /\ UNCHANGED << direct, closes, integrator, ablationVars, reads, in_crew, thresholds, interrupted_at, voteLog, returned, pureVars, replayLog, signLog, private_key, enable_blockchain, pc, now, passes, cycleVars, firstId,
                  crews, decisions, nonce, faults, retries, formLog, pending >>

\* faulty variant: the read is repeated until the request has passed
PollAgain_untilPassed(passed) == ~passed

\* validate_critical_decision reads has_consensus_passed once and returns
\* what it read: there is no loop around the read, whatever the answer
PollAgain(passed) == FALSE

\* validate_critical_decision: the has_consensus_passed read and the return
\* (consensus_passed, decision_id, tx_hash)
PollConsensus ==
  /\ pc = "poll"
  /\ consensus_passed' = Some(LedgerHasConsensusPassed(Val(request_id)))
  /\ decision_id' = logged_id
  /\ pc' = IF PollAgain(LedgerHasConsensusPassed(Val(request_id))) THEN "poll" ELSE "alert"
  /\ reads' = Append(reads, Read("has_consensus_passed"))
  /\ UNCHANGED << direct, closes, integrator, ablationVars, in_crew, thresholds, interrupted_at, voteLog, returned, pureVars, replayLog, signLog, private_key, enable_blockchain, now, passes, readings, max_ppm, event_data, crew_id,
                  report, decision_hash, severity, logged_id, request_id, sign_failed,
                  notified, calls, ledgerVars, faults, retries, formLog, pending >>

\* the alert: no recipients ends the pass; send_email_alert may raise
SendAlert ==
  /\ pc = "alert"
  /\ \E recipients \in BOOLEAN, emailOk \in BOOLEAN :
       LET info == blockchain_info(crew_id, decision_id, consensus_passed) IN
       IF ~recipients
       THEN /\ emailOk
            /\ pc' = "done"
            /\ returned' = Return(FALSE, info)
            /\ UNCHANGED << notified, faults >>
       ELSE /\ faults + (IF emailOk THEN 0 ELSE 1) <= MaxFaults
            /\ faults' = faults + (IF emailOk THEN 0 ELSE 1)
            /\ notified' = TRUE
            /\ pc' = IF emailOk /\ Truthy(decision_id) THEN "mark" ELSE "done"
            /\ returned' = IF ~emailOk THEN EmailFailureResult(info)
                           ELSE IF Truthy(decision_id) THEN returned
                           ELSE Return(TRUE, info)
  /\ UNCHANGED << direct, closes, integrator, ablationVars, reads, in_crew, thresholds, interrupted_at, voteLog, pureVars, replayLog, signLog, private_key, enable_blockchain, now, passes, readings, max_ppm, event_data, crew_id,
                  report, decision_hash, severity, logged_id, request_id, decision_id,
                  consensus_passed, sign_failed, calls, ledgerVars, retries, formLog,
                  pending >>

\* mark_action_executed after the alert was sent: `if blockchain_integrator
\* and decision_id:`; its exceptions are swallowed
MarkExecuted ==
  /\ pc = "mark"
  /\ \E o \in TxOutcomes :
       LET id == Val(decision_id)
           i == IndexOfId(id)
           accepted == LedgerHasDecision(id) /\ ~decisions[i].executed
           actual == IF accepted THEN o ELSE "reverted"
       IN /\ faults + Cost(o, TRUE) <= MaxFaults
          /\ (~accepted => o = "confirmed")
          /\ faults' = faults + Cost(o, TRUE)
          /\ decisions' = IF Mined(actual)
                          THEN [decisions EXCEPT ![i].executed = TRUE] ELSE decisions
          /\ calls' = Append(calls, Call("mark_executed", actual))
  /\ pc' = "done"
  /\ returned' = Return(TRUE, blockchain_info(crew_id, decision_id, consensus_passed))
  /\ UNCHANGED << direct, closes, integrator, ablationVars, reads, in_crew, thresholds, interrupted_at, voteLog, pureVars, replayLog, signLog, private_key, enable_blockchain, now, passes, readings, max_ppm, event_data, crew_id,
                  report, decision_hash, severity, logged_id, request_id, decision_id,
                  consensus_passed, sign_failed, notified, firstId,
                  crews, requests, nonce, retries, formLog, pending >>

\* run_monitoring_loop: the pass is over, sleep, next pass
NextPass ==
  /\ pc = "done"
  /\ pending' = IF consensus_passed = Some(FALSE)
                THEN pending \cup { [event |-> Val(event_data), request_id |-> request_id] }
                ELSE pending
  /\ now' = now + CHECK_INTERVAL_SECONDS
  /\ passes' = passes + 1
  /\ pc' = "idle"
  /\ readings' = << >>
  /\ max_ppm' = None
  /\ event_data' = None
  /\ crew_id' = None
  /\ report' = None
  /\ decision_hash' = None
  /\ severity' = None
  /\ logged_id' = None
  /\ request_id' = None
  /\ decision_id' = None
  /\ consensus_passed' = None
  /\ sign_failed' = FALSE
  /\ notified' = FALSE
  /\ calls' = << >>
  /\ returned' = None
  /\ reads' = << >>
  /\ UNCHANGED << direct, closes, integrator, ablationVars, in_crew, thresholds, interrupted_at, voteLog, pureVars, replayLog, signLog, private_key, enable_blockchain, ledgerVars, faults, retries, formLog >>

Next ==
  \/ StartPass
  \/ FormCrewStep
  \/ Reason
  \/ LogDecisionStep
  \/ RequestConsensusStep
  \/ CastVoteStep
  \/ OtherVote
  \/ PollConsensus
  \/ SendAlert
  \/ MarkExecuted
  \/ NextPass

Spec == Init /\ [][Next]_vars

\* the monitoring loop as Python runs it: a statement that can run does run
\* (every ledger call returns or raises), so the loop never stands still
\* while a step is possible
SpecCycle == Init /\ [][Next]_vars /\ WF_vars(Next)

\* the monitoring loop together with direct repeated formation calls
NextRetry == Next \/ RetryFormation
SpecRetry == Init /\ [][NextRetry]_vars

\* ------------------------------------------------- calls outside the loop
\* the methods of CrewBlockchainIntegrator a caller can invoke
IntegratorMethods ==
  { "validate_crew_formation", "validate_critical_decision", "mark_action_executed" }

\* faulty variant: the methods have no enable_blockchain guard and go on to
\* self.client, which is None: the AttributeError is caught by the try of
\* validate_crew_formation and mark_action_executed, and escapes from line
\* 162 of validate_critical_decision
SimulationMode_unguarded(method) ==
  CASE method = "validate_crew_formation" ->
         [raised |-> FALSE, result |-> << FALSE, None, None >>, ledger |-> << >>]
    [] method = "validate_critical_decision" ->
         [raised |-> TRUE, result |-> None, ledger |-> << >>]
    [] method = "mark_action_executed" ->
         [raised |-> FALSE, result |-> None, ledger |-> << >>]

\* the first statement of each method when enable_blockchain is false:
\* `if not self.enable_blockchain: return True, None, None` (111-113, 157-159)
\* and `if not self.enable_blockchain or decision_id is None: return None`
\* (247-249); `ledger` is the sequence of client calls made before the return
SimulationMode(method) ==
  CASE method = "validate_crew_formation" ->
         [raised |-> FALSE, result |-> << TRUE, None, None >>, ledger |-> << >>]
    [] method = "validate_critical_decision" ->
         [raised |-> FALSE, result |-> << TRUE, None, None >>, ledger |-> << >>]
    [] method = "mark_action_executed" ->
         [raised |-> FALSE, result |-> None, ledger |-> << >>]

\* a method of an integrator in simulation mode is called between two passes
\* (the loop itself calls them only when enable_blockchain is set)
DirectCall ==
  /\ pc = "idle"
  /\ integrator # None /\ ~Val(integrator).enable_blockchain
  /\ \E method \in IntegratorMethods :
       LET out == SimulationMode(method)
       IN /\ direct' = Some([method |-> method, raised |-> out.raised,
                             result |-> out.result])
          /\ calls' = calls \o out.ledger
  /\ UNCHANGED << closes, integrator, ablationVars, reads, in_crew, thresholds,
                  interrupted_at, voteLog, returned, pureVars, replayLog, signLog,
                  private_key, enable_blockchain, pc, now, passes, readings, max_ppm,
                  event_data, crew_id, report, decision_hash, severity, logged_id,
                  request_id, decision_id, consensus_passed, sign_failed, notified,
                  ledgerVars, faults, retries, formLog, pending >>

NextDirect == Next \/ DirectCall
SpecDirect == Init /\ [][NextDirect]_vars

\* ------------------------------------------------------------- interrupts
\* faulty variant: the client is closed in the except branch and again in
\* the finally block
close_client_calls_twice(interrupted) == IF interrupted THEN 2 ELSE 0

\* run_monitoring_loop: the `finally` of the outer try calls close_client()
\* once when the loop is left; `while True` is left only by an exception that
\* `except Exception` does not catch
close_client_calls(interrupted) == IF interrupted THEN 1 ELSE 0

\* run_monitoring_loop: KeyboardInterrupt is delivered by the interpreter
\* between any two bytecodes of the main thread; `except Exception` (line
\* 345) does not catch it, `except KeyboardInterrupt` (line 350) outside the
\* while loop does, and the loop is over
KeyboardInterrupt ==
  /\ pc # "stopped"
  /\ pc' = "stopped"
  /\ interrupted_at' = pc
  /\ closes' = closes + close_client_calls(TRUE)
  /\ UNCHANGED << direct, integrator, ablationVars, reads, in_crew, thresholds, voteLog, returned, pureVars, replayLog, signLog,
                  private_key, enable_blockchain, now, passes, cycleVars, ledgerVars,
                  faults, retries, formLog, pending >>

NextInterrupt == Next \/ KeyboardInterrupt
SpecInterrupt == Init /\ [][NextInterrupt]_vars

\* the loop with interrupts, as Python runs it: the statements of the loop
\* run whenever they can (the sleep returns), a KeyboardInterrupt may come or not
SpecLoop == Init /\ [][NextInterrupt]_vars /\ WF_vars(Next)

\* ---------------------------------------------------------- several agents
\* another agent runs the same client for the event this agent is handling:
\* it builds event_data from its own clock (the same instant or a second
\* later) and the same node, and calls validate_crew_formation; its
\* transaction is confirmed and its receipt carries the CrewFormed event
OtherAgentFormsCrew ==
  /\ pc \in { "form", "reason", "validate", "request", "vote", "poll", "alert" }
  /\ enable_blockchain
  /\ max_ppm # None /\ AtOrAboveEmergency(Val(max_ppm))
  /\ \E node \in NodeIds, t \in { now, now + 1 } :
       LET ed == [timestamp |-> t, node_id |-> node]
           e == _generate_event_id(ed.timestamp, ed.node_id)
           res == validate_crew_formation("confirmed", TRUE, e)
       IN /\ \A i \in DOMAIN formLog :
               formLog[i].agent = "other" => ~SameEvent(formLog[i], ed)
          /\ crews' = form_crew_ledger("confirmed", e)
          /\ formLog' = Append(formLog, [FormEntry(ed, "confirmed", res)
                                           EXCEPT !.agent = "other"])
  /\ UNCHANGED << direct, closes, integrator, ablationVars, reads, in_crew, thresholds, interrupted_at, voteLog, returned, pureVars, replayLog,
                  signLog, private_key, enable_blockchain, pc, now, passes, cycleVars,
                  firstId, decisions, requests, nonce, faults, retries, pending >>

NextAgents == Next \/ OtherAgentFormsCrew
SpecAgents == Init /\ [][NextAgents]_vars

\* -------------------------------------------------------- signature replay
\* direct use of the integrator: validate_critical_decision is called for a
\* crew that exists, and called again after it returned
InitReplay ==
  /\ private_key = "valid"
  /\ enable_blockchain = TRUE
  /\ pc = "validate"
  /\ thresholds = Some(get_governance_thresholds(TRUE, TRUE))
  /\ integrator = CrewBlockchainIntegrator_init(TRUE, private_key)
  /\ reads = << >>
  /\ closes = 0
  /\ direct = None
  /\ _last_alert_ts = [t \in TraceIds |-> None]
  /\ new_anomalies = << >>
  /\ acceptances = << >>
  /\ in_crew \in BOOLEAN
  /\ voteLog = << >>
  /\ returned = None
  /\ interrupted_at = ""
  /\ now = 0
  /\ passes = 0
  /\ readings = << 1000, 5000 >>
  /\ max_ppm = Some(5000)
  /\ event_data = Some([timestamp |-> 0, node_id |-> "node1"])
  /\ firstId = 1
  /\ crews = << _generate_event_id(0, "node1") >>
  /\ crew_id = Some(LedgerCrewId(crews, _generate_event_id(0, "node1")))
  /\ report \in { Some(r) : r \in ReasonerOutputs \cup { FallbackReport(FailureMessage) } }
  /\ decision_hash = None
  /\ severity = None
  /\ logged_id = None
  /\ request_id = None
  /\ decision_id = None
  /\ consensus_passed = None
  /\ sign_failed = FALSE
  /\ notified = FALSE
  /\ calls = << >>
  /\ decisions = << >>
  /\ requests = << >>
  /\ nonce = 0
  /\ faults = 0
  /\ retries = 0
  /\ formLog = << >>
  /\ pending = { }
  /\ signLog = << >>
  /\ replayLog = << >>
  /\ votes = << >>
  /\ total_eligible = CrewSize
  /\ percentage = consensus_percentage
  /\ verdict = evaluate(<< >>, CrewSize, consensus_percentage)

\* validate_critical_decision has returned and is called again for the crew
ValidateAgain ==
  /\ pc = "alert"
  /\ retries < MaxRetries
  /\ retries' = retries + 1
  /\ pc' = "validate"
  /\ \E r \in ReasonerOutputs \cup { FallbackReport(FailureMessage) } : report' = Some(r)
  /\ decision_hash' = None
  /\ severity' = None
  /\ logged_id' = None
  /\ request_id' = None
  /\ decision_id' = None
  /\ consensus_passed' = None
  /\ sign_failed' = FALSE
  /\ calls' = << >>
  /\ reads' = << >>
  /\ UNCHANGED << direct, closes, integrator, ablationVars, in_crew, thresholds, interrupted_at, voteLog, returned, pureVars, replayLog, signLog, private_key, enable_blockchain, now, passes,
                  readings, max_ppm, event_data, crew_id, notified, ledgerVars,
                  faults, formLog, pending >>

\* a signature captured from an earlier log_decision is submitted to the
\* ledger again, between two validations
ReplaySignature ==
  /\ pc = "alert"
  /\ Len(replayLog) < MaxReplays
  /\ \E i \in DOMAIN signLog :
       LET sig == signLog[i].signature
           accepted == LedgerAcceptsSignatures(<< sig >>)
       IN /\ replayLog' = Append(replayLog, [signature |-> sig, signed_at |-> signLog[i].nonce,
                                              ledger_nonce |-> nonce, accepted |-> accepted])
          /\ decisions' = IF accepted
                          THEN LedgerLogDecision(decisions, firstId, sig.hash,
                                                 SEVERITY_CRITICAL, << sig >>)
                          ELSE decisions
          /\ nonce' = IF accepted THEN nonce + 1 ELSE nonce
  /\ UNCHANGED << direct, closes, integrator, ablationVars, reads, in_crew, thresholds, interrupted_at, voteLog, returned, pureVars, signLog, private_key, enable_blockchain, pc, now, passes, cycleVars,
                  firstId, crews, requests, faults, retries, formLog, pending >>

NextReplay ==
  \/ LogDecisionStep
  \/ RequestConsensusStep
  \/ CastVoteStep
  \/ OtherVote
  \/ PollConsensus
  \/ ValidateAgain
  \/ ReplaySignature
SpecReplay == InitReplay /\ [][NextReplay]_vars

\* validate_critical_decision with a transaction of another party in between:
\* sign_decision reads the nonce (get_nonce, a call), a captured signature is
\* submitted again and mined, and only then is this call's log_decision
\* mined; the ledger verifies the fresh signature at the nonce it holds then
RacedLogDecision ==
  /\ pc = "validate"
  /\ enable_blockchain /\ Truthy(crew_id) /\ AtOrAboveEmergency(Val(max_ppm))
  /\ ~SeverityRaises(Val(report))
  /\ Len(replayLog) < MaxReplays
  /\ \E i \in DOMAIN signLog :
       LET h == _generate_decision_hash(Val(report))
           sev == SeverityOf(Val(report))
           fresh == sign_decision(h, nonce)
           captured == signLog[i].signature
           replayed == LedgerAcceptsSignaturesAt(<< captured >>, nonce)
           n1 == IF replayed THEN nonce + 1 ELSE nonce
           ds1 == IF replayed
                  THEN LedgerLogDecision(decisions, firstId, captured.hash,
                                         SEVERITY_CRITICAL, << captured >>)
                  ELSE decisions
           accepted == LedgerAcceptsSignaturesAt(<< fresh >>, n1)
           ds2 == IF accepted
                  THEN LedgerLogDecision(ds1, Val(crew_id), h, sev, << fresh >>)
                  ELSE ds1
       IN /\ replayLog' = Append(replayLog,
                                 [signature |-> captured, signed_at |-> signLog[i].nonce,
                                  ledger_nonce |-> nonce, accepted |-> replayed])
          /\ signLog' = Append(signLog, [hash |-> h, nonce |-> nonce, signature |-> fresh,
                                        stale |-> ~accepted])
          /\ decision_hash' = Some(h)
          /\ severity' = Some(sev)
          /\ sign_failed' = FALSE
          /\ reads' = reads \o << Read("is_critical"), Read("get_nonce") >>
          /\ decisions' = ds2
          /\ nonce' = IF accepted THEN n1 + 1 ELSE n1
          /\ calls' = Append(calls, Call("log_decision",
                                         IF accepted THEN "confirmed" ELSE "reverted"))
          /\ IF accepted
             THEN /\ logged_id' = Some(_extract_decision_id_from_receipt(
                                         TRUE, IdOfIndex(Len(ds2))))
                  /\ pc' = "request"
             ELSE /\ logged_id' = None
                  /\ pc' = "alert"
  /\ UNCHANGED << direct, closes, integrator, ablationVars, in_crew, thresholds, interrupted_at, voteLog, returned, pureVars,
                  private_key, enable_blockchain, now, passes, readings, max_ppm,
                  event_data, crew_id, report, request_id, decision_id, consensus_passed,
                  notified, firstId, crews, requests, faults, retries, formLog, pending >>

NextRace == NextReplay \/ RacedLogDecision
SpecRace == InitReplay /\ [][NextRace]_vars

\* ------------------------------------------------- mild reasoner verdicts
\* the reasoner rates the anomaly below critical
MildOutputs ==
  { PyDict(<< Item("severity", "str", "warning"), Item("explanation", "str", "leak") >>),
    PyDict(<< Item("severity", "str", "safe"), Item("explanation", "str", "leak") >>) }

ReasonMild ==
  /\ pc = "reason"
  /\ \E r \in MildOutputs : report' = Some(r)
  /\ pc' = "validate"
  /\ UNCHANGED << direct, closes, integrator, ablationVars, reads, in_crew, thresholds, interrupted_at, voteLog, returned, pureVars, replayLog, signLog, private_key, enable_blockchain, now, passes,
                  readings, max_ppm, event_data, crew_id,
                  decision_hash, severity, logged_id, request_id, decision_id,
                  consensus_passed, sign_failed, notified, calls, ledgerVars,
                  faults, retries, formLog, pending >>

NextSeverity == Next \/ ReasonMild
SpecSeverity == Init /\ [][NextSeverity]_vars


\* ------------------------------------------------- the ablation detectors
\* the readings get_recent_readings hands to an ablation detector: trace_id
\* and id may each be missing ("")
AblationReadings ==
  [trace_id : { "", "t1" }, id : { "", "t2" }, methane_ppm : { 1000, 5000 }]
AblationBatches ==
  { << >> } \cup { << r >> : r \in AblationReadings }
            \cup { << r1, r2 >> : r1, r2 \in AblationReadings }

\* how long a pass of a detector may take (the sleep comes on top of it)
PassDurations == { 0, 270, 285 }

\* `trace_id = r.get("trace_id") or r.get("id") or ""`
TraceIdOf(r) == IF r.trace_id # "" THEN r.trace_id ELSE r.id

\* detect_static_threshold: the readings at or above ABSOLUTE_EMERGENCY_PPM
detect_static_threshold(rs) == SelectSeq(rs, LAMBDA r : r.methane_ppm >= ABSOLUTE_EMERGENCY_PPM)

\* faulty variant: the cooldown is never looked at
CooldownElapsed_always(t, last) == TRUE

\* `(time.time() - _last_alert_ts[trace_id]) >= ALERT_COOLDOWN_SECONDS`
CooldownElapsed(t, last) == t - last >= ALERT_COOLDOWN_SECONDS

\* the cooldown loop of run_detection_once over the anomalies, at time t:
\* the readings it accepts, the map it leaves, and the trace ids it stamped
RECURSIVE cooldown_filter(_, _, _, _, _)
cooldown_filter(anomalies, last, t, new, stamped) ==
  IF anomalies = << >>
  THEN [new_anomalies |-> new, last_alert_ts |-> last, stamped |-> stamped]
  ELSE LET r == Head(anomalies)
           trace_id == TraceIdOf(r)
       IN IF trace_id = ""
          THEN cooldown_filter(Tail(anomalies), last, t, Append(new, r), stamped)
          ELSE IF last[trace_id] = None \/ CooldownElapsed(t, Val(last[trace_id]))
          THEN cooldown_filter(Tail(anomalies), [last EXCEPT ![trace_id] = Some(t)], t,
                               Append(new, r),
                               Append(stamped, [trace_id |-> trace_id, at |-> t]))
          ELSE cooldown_filter(Tail(anomalies), last, t, new, stamped)

\* the (alert_sent, text) an ablation pass returns
AblationReturn(sent, text) == Some([alert_sent |-> sent, text |-> text])

\* run_detection_once of an ablation detector, as run_monitoring_loop calls it
run_detection_once ==
  /\ pc = "abl_idle"
  /\ passes < MaxAblationPasses
  /\ \E batch \in AblationBatches, recipients \in BOOLEAN, emailOk \in BOOLEAN :
       LET anomalies == detect_static_threshold(batch)
           f == cooldown_filter(anomalies, _last_alert_ts, now, << >>, << >>)
       IN /\ readings' = batch
          /\ IF batch = << >> \/ anomalies = << >>
             THEN /\ recipients /\ emailOk
                  /\ returned' = AblationReturn(FALSE, IF batch = << >>
                                                       THEN "No readings found."
                                                       ELSE "No anomalies detected.")
                  /\ new_anomalies' = << >>
                  /\ UNCHANGED << _last_alert_ts, acceptances >>
             ELSE /\ _last_alert_ts' = f.last_alert_ts
                  /\ new_anomalies' = f.new_anomalies
                  /\ acceptances' = acceptances \o f.stamped
                  /\ IF f.new_anomalies = << >>
                     THEN /\ recipients /\ emailOk
                          /\ returned' = AblationReturn(FALSE, "Anomalies present but in cooldown period.")
                     ELSE IF ~recipients
                     THEN /\ emailOk
                          /\ returned' = AblationReturn(FALSE, "No recipients configured.")
                     ELSE returned' = AblationReturn(emailOk, IF emailOk THEN "report"
                                                              ELSE "Email error")
  /\ pc' = "abl_done"
  /\ UNCHANGED << direct, closes, integrator, reads, in_crew, thresholds, interrupted_at,
                  voteLog, pureVars, replayLog, signLog, private_key, enable_blockchain,
                  now, passes, max_ppm, event_data, crew_id, report, decision_hash,
                  severity, logged_id, request_id, decision_id, consensus_passed,
                  sign_failed, notified, calls, ledgerVars, faults, retries, formLog,
                  pending >>

\* run_monitoring_loop of an ablation detector: time.sleep(CHECK_INTERVAL_SECONDS)
\* after the pass, then the next pass
AblationSleep ==
  /\ pc = "abl_done"
  /\ \E d \in PassDurations : now' = now + d + CHECK_INTERVAL_SECONDS
  /\ passes' = passes + 1
  /\ pc' = "abl_idle"
  /\ UNCHANGED << direct, closes, integrator, ablationVars, reads, in_crew, thresholds,
                  interrupted_at, voteLog, returned, pureVars, replayLog, signLog,
                  private_key, enable_blockchain, cycleVars, ledgerVars, faults, retries,
                  formLog, pending >>

InitAblation ==
  /\ private_key = "missing"
  /\ enable_blockchain = FALSE
  /\ thresholds = None
  /\ integrator = None
  /\ reads = << >>
  /\ closes = 0
  /\ direct = None
  /\ _last_alert_ts = [t \in TraceIds |-> None]
  /\ new_anomalies = << >>
  /\ acceptances = << >>
  /\ in_crew = FALSE
  /\ voteLog = << >>
  /\ returned = None
  /\ interrupted_at = ""
  /\ pc = "abl_idle"
  /\ now = 0
  /\ passes = 0
  /\ readings = << >>
  /\ max_ppm = None
  /\ event_data = None
  /\ crew_id = None
  /\ report = None
  /\ decision_hash = None
  /\ severity = None
  /\ logged_id = None
  /\ request_id = None
  /\ decision_id = None
  /\ consensus_passed = None
  /\ sign_failed = FALSE
  /\ notified = FALSE
  /\ calls = << >>
  /\ firstId = 1
  /\ crews = << >>
  /\ decisions = << >>
  /\ requests = << >>
  /\ nonce = 0
  /\ faults = 0
  /\ retries = 0
  /\ formLog = << >>
  /\ pending = { }
  /\ signLog = << >>
  /\ replayLog = << >>
  /\ votes = << >>
  /\ total_eligible = CrewSize
  /\ percentage = consensus_percentage
  /\ verdict = evaluate(<< >>, CrewSize, consensus_percentage)

NextAblation == run_detection_once \/ AblationSleep
SpecAblation == InitAblation /\ [][NextAblation]_vars

\* --------------------------------------------- the pure functions by themselves
\* severity strings a payload can carry
SeverityStrings ==
  { "safe", "normal", "warning", "critical", "emergency",
    "SAFE", "Normal", "Warning", "CRITICAL", "Critical", "Emergency",
    "high", "", "critical " }
Explanations == { "leak", "" }

\* decision payloads: the same key/value pairs in both insertion orders
PurePayloads ==
  { PyDict(<< >>) }
  \cup { PyDict(<< Item("severity", "str", sv) >>) : sv \in SeverityStrings }
  \cup { PyDict(<< Item("explanation", "str", ex) >>) : ex \in Explanations }
  \cup { PyDict(<< Item("severity", "str", sv), Item("explanation", "str", ex) >>) :
           sv \in SeverityStrings, ex \in Explanations }
  \cup { PyDict(<< Item("explanation", "str", ex), Item("severity", "str", sv) >>) :
           sv \in SeverityStrings, ex \in Explanations }

\* the inputs of evaluate, or a payload still to be hashed
InitPure ==
  /\ private_key = "valid"
  /\ enable_blockchain = TRUE
  /\ pc \in { "evaluate", "digest", "thresholds" }
  /\ thresholds = None
  /\ integrator = CrewBlockchainIntegrator_init(TRUE, private_key)
  /\ reads = << >>
  /\ closes = 0
  /\ direct = None
  /\ _last_alert_ts = [t \in TraceIds |-> None]
  /\ new_anomalies = << >>
  /\ acceptances = << >>
  /\ in_crew = TRUE
  /\ voteLog = << >>
  /\ returned = None
  /\ interrupted_at = ""
  /\ now = 0
  /\ passes = 0
  /\ readings = << >>
  /\ max_ppm = None
  /\ event_data = None
  /\ crew_id = None
  /\ report = None
  /\ decision_hash = None
  /\ severity = None
  /\ logged_id = None
  /\ request_id = None
  /\ decision_id = None
  /\ consensus_passed = None
  /\ sign_failed = FALSE
  /\ notified = FALSE
  /\ calls = << >>
  /\ firstId = 1
  /\ crews = << >>
  /\ decisions = << >>
  /\ requests = << >>
  /\ nonce = 0
  /\ faults = 0
  /\ retries = 0
  /\ formLog = << >>
  /\ pending = { }
  /\ signLog = << >>
  /\ replayLog = << >>
  /\ votes = << >>
  /\ IF pc = "evaluate"
     THEN total_eligible \in 0 .. MaxEligible /\ percentage \in Percentages
     ELSE total_eligible = CrewSize /\ percentage = consensus_percentage
  /\ verdict = evaluate(votes, total_eligible, percentage)

\* the voters whose votes can arrive: the eligible ones (with no eligible
\* voter at all, votes of others still arrive)
Voters == IF total_eligible = 0 THEN 1 .. MaxEligible ELSE 1 .. total_eligible

\* one more vote arrives and evaluate is applied to the vote log
CastBallot ==
  /\ pc = "evaluate"
  /\ \E voter \in Voters, approved \in BOOLEAN :
       /\ \A i \in DOMAIN votes : votes[i].voter # voter
       /\ votes' = Append(votes, Vote(voter, approved))
  /\ verdict' = evaluate(votes', total_eligible, percentage)
  /\ UNCHANGED << direct, closes, integrator, ablationVars, reads, in_crew, thresholds, interrupted_at, voteLog, returned, total_eligible, percentage, replayLog, signLog, private_key,
                  enable_blockchain, pc, now, passes, cycleVars, ledgerVars,
                  faults, retries, formLog, pending >>

\* validate_critical_decision, lines 168 and 171, applied to a payload
DigestPayload ==
  /\ pc = "digest"
  /\ \E p \in PurePayloads :
       /\ report' = Some(p)
       /\ decision_hash' = Some(_generate_decision_hash(p))
       /\ severity' = Some(SeverityOf(p))
  /\ UNCHANGED << direct, closes, integrator, ablationVars, reads, in_crew, thresholds, interrupted_at, voteLog, returned, pureVars, replayLog, signLog, private_key, enable_blockchain, pc, now,
                  passes, readings, max_ppm, event_data, crew_id, logged_id, request_id,
                  decision_id, consensus_passed, sign_failed, notified, calls, ledgerVars,
                  faults, retries, formLog, pending >>

\* get_governance_thresholds called directly, with governance on or off and
\* the ledger reachable or not
ReadThresholds ==
  /\ pc = "thresholds"
  /\ \E enabled \in BOOLEAN, reachable \in BOOLEAN :
       thresholds' = Some(get_governance_thresholds(enabled, reachable))
  /\ pc' = "thresholds_read"
  /\ UNCHANGED << direct, closes, integrator, ablationVars, reads, in_crew, interrupted_at, voteLog, returned, pureVars, replayLog, signLog,
                  private_key, enable_blockchain, now, passes, cycleVars, ledgerVars,
                  faults, retries, formLog, pending >>

NextPure == CastBallot \/ DigestPayload \/ ReadThresholds
SpecPure == InitPure /\ [][NextPure]_vars


\* ================================================================== claims
\* every transaction submitted in this pass was confirmed by the ledger
AllAccepted == \A i \in DOMAIN calls : calls[i].outcome = "confirmed"
\* the pass is governed and critical
GovernedCritical ==
  enable_blockchain /\ max_ppm # None /\ Val(max_ppm) >= ABSOLUTE_EMERGENCY_PPM

\* C1: mark_executed is submitted in a pass only after has_consensus_passed
\* returned true in that pass; after false, or without a read, it is not.
C1_MarkExecutedOnlyAfterConsensus ==
  Submitted("mark_executed") => consensus_passed = Some(TRUE)

\* C2: two successful formation calls with the same event_id return the same
\* crew_id, and the ledger then holds exactly one crew for that event_id.
C2_FormationIdempotent ==
  /\ \A i, j \in DOMAIN formLog :
       ( /\ formLog[i].event_id = formLog[j].event_id
         /\ formLog[i].success /\ formLog[j].success )
       => formLog[i].crew_id = formLog[j].crew_id
  /\ \A i \in DOMAIN formLog :
       formLog[i].success
       => Cardinality({ k \in DOMAIN crews : crews[k] = formLog[i].event_id }) = 1

\* C3: two formation requests for the same node whose timestamps fall into
\* the same same-event window carry the same event id.
C3_SameWindowSameEventId ==
  \A i, j \in DOMAIN formLog :
    SameEvent(formLog[i], formLog[j]) => formLog[i].event_id = formLog[j].event_id

\* C4: after a form_crew submission that timed out, every later form_crew
\* submission for that event is preceded by a re-read of the ledger's crew
\* for the event; form_crew is never resubmitted blindly.
C4_ReadBeforeRetry ==
  \A i, j \in DOMAIN formLog :
    ( i < j /\ TimedOut(formLog[i].outcome) /\ SameEvent(formLog[i], formLog[j]) )
    => formLog[j].reread

\* C5: in a pass whose largest reading is below the critical threshold no
\* state-changing ledger call is submitted.
C5_BypassNoLedgerWrites ==
  ( readings # << >> /\ MaxSeq(readings) < ABSOLUTE_EMERGENCY_PPM ) => calls = << >>
C5_Witness ==
  /\ pc = "done" /\ enable_blockchain
  /\ readings # << >> /\ MaxSeq(readings) < ABSOLUTE_EMERGENCY_PPM
  /\ calls = << >>

\* C6: a governed critical pass in which the ledger accepted every submitted
\* transaction ends with a confirmed log_decision, whatever the reasoner
\* returned, whatever crew id was assigned and whatever is_critical answered.
C6_CriticalDecisionAlwaysLogged ==
  ( pc = "done" /\ GovernedCritical /\ AllAccepted ) => Confirmed("log_decision")

\* C7: when the reasoner failed in a critical pass for which a crew was
\* formed, log_decision is submitted with the hash of the fallback payload
\* and severity Critical.
C7_FallbackDecisionLogged ==
  ( /\ pc = "done" /\ GovernedCritical
    /\ Confirmed("form_crew")
    /\ report = Some(FallbackReport(FailureMessage)) )
  => ( /\ Submitted("log_decision")
       /\ decision_hash = Some(_generate_decision_hash(FallbackReport(FailureMessage)))
       /\ severity = Some(SEVERITY_CRITICAL) )

\* C8: in a pass whose has_consensus_passed read returned false the
\* notification collaborator is not invoked.
C8_NoNotifyWhilePending ==
  consensus_passed = Some(FALSE) => ~notified

\* C9: once a pass ended with consensus not passed, a later pass for the same
\* event submits no new crew, decision or consensus request.
C9_PendingNotResubmitted ==
  \A p \in pending :
    ( event_data # None /\ SameEvent(p.event, Val(event_data)) )
    => Ops(calls) \cap { "form_crew", "log_decision", "request_consensus" } = { }

C11_RejectionAbortsCycle ==
  \A i \in DOMAIN calls :
    calls[i].outcome = "reverted" => ( i = Len(calls) /\ ~notified )

\* votes cast for / against in the vote log, counted as a set
Approvals == Cardinality({ i \in DOMAIN votes : votes[i].approved })
Disapprovals == Cardinality({ i \in DOMAIN votes : ~votes[i].approved })
\* consensus_percentage = 51 and total_eligible = 4
AtQuorumBoundary == pc = "evaluate" /\ percentage = 51 /\ total_eligible = 4

\* C12 as stated: at 51 % of 4 eligible voters evaluate returns PENDING for
\* 2 approvals, PASS for 3 approvals, PENDING for 2 disapprovals and FAIL for
\* 3 disapprovals.
C12_QuorumBoundaryAsStated ==
  AtQuorumBoundary =>
    /\ ( Approvals = 2 /\ Disapprovals < 2 ) => verdict = "PENDING"
    /\ Approvals = 3 => verdict = "PASS"
    /\ Disapprovals = 2 => verdict = "PENDING"
    /\ Disapprovals = 3 => verdict = "FAIL"
\* C12 amended: at 51 % of 4 eligible voters evaluate returns PENDING for 2
\* approvals with fewer than 2 disapprovals, PASS for 3 approvals, and FAIL
\* already for 2 disapprovals (50 % > 49 %) as for 3.
C12_QuorumBoundary ==
  AtQuorumBoundary =>
    /\ ( Approvals = 2 /\ Disapprovals < 2 ) => verdict = "PENDING"
    /\ Approvals = 3 => verdict = "PASS"
    /\ Disapprovals = 2 => verdict = "FAIL"
    /\ Disapprovals = 3 => verdict = "FAIL"
C12_Witness ==
  AtQuorumBoundary /\ Disapprovals = 2 /\ Approvals = 0 /\ verdict = "FAIL"

\* C13: with total_eligible > 0, evaluate returns FAIL exactly when the
\* disapproving share exceeds 100 - consensus_percentage, which is exactly
\* when the approvals stay below the threshold even if every eligible voter
\* who has not voted yet approves.
C13_FailIffPassUnreachable ==
  ( pc = "evaluate" /\ total_eligible > 0 ) =>
    /\ verdict = "FAIL" <=> Disapprovals * 100 > (100 - percentage) * total_eligible
    /\ verdict = "FAIL" <=>
         (Approvals + (total_eligible - Len(votes))) * 100 < percentage * total_eligible
C13_Witness ==
  /\ pc = "evaluate" /\ total_eligible > 0
  /\ verdict = "FAIL" /\ Len(votes) < total_eligible /\ Approvals > 0

\* C14: with total_eligible = 0 evaluate returns FAIL for every vote log and
\* every consensus_percentage.
C14_EmptyDenominatorFails ==
  ( pc = "evaluate" /\ total_eligible = 0 ) => verdict = "FAIL"
C14_Witness ==
  pc = "evaluate" /\ total_eligible = 0 /\ Approvals > 0 /\ verdict = "FAIL"

\* the votes of a vote log in the order of their voters
RECURSIVE VotesByVoter(_)
VotesByVoter(S) ==
  IF S = { } THEN << >>
  ELSE LET first == CHOOSE v \in S : \A w \in S : v.voter <= w.voter
       IN << first >> \o VotesByVoter(S \ { first })
InVoterOrder(vs) == VotesByVoter({ vs[i] : i \in DOMAIN vs })

\* C15: the verdict of a vote log is the verdict of the same votes in any
\* other arrival order (here: in the order of their voters).
C15_VerdictOrderIndependent ==
  pc = "evaluate" => verdict = evaluate(InVoterOrder(votes), total_eligible, percentage)
C15_Witness ==
  /\ pc = "evaluate" /\ Len(votes) >= 3 /\ votes # InVoterOrder(votes)
  /\ Approvals > 0 /\ Disapprovals > 0 /\ verdict = "PENDING"

\* C16: a captured signature submitted while the signer's nonce is greater
\* than the nonce at which it was signed is rejected; a signature is accepted
\* only when the nonce it embeds equals the signer's current nonce.
C16_StaleSignatureRejected ==
  /\ \A i \in DOMAIN replayLog :
       /\ replayLog[i].ledger_nonce > replayLog[i].signed_at => ~replayLog[i].accepted
       /\ replayLog[i].accepted => replayLog[i].signature.nonce = replayLog[i].ledger_nonce
  /\ \A i \in DOMAIN decisions :
       \A k \in DOMAIN decisions[i].signatures : decisions[i].signatures[k].nonce = i - 1
C16_Witness ==
  \E i \in DOMAIN replayLog :
    replayLog[i].ledger_nonce > replayLog[i].signed_at /\ ~replayLog[i].accepted

\* C17: every signature is over the decision_hash and the nonce the ledger
\* held at signing time, and two signatures over the same decision_hash made
\* at different nonces differ.
C17_SignatureBindsNonce ==
  /\ \A i \in DOMAIN signLog :
       /\ signLog[i].signature.hash = signLog[i].hash
       /\ signLog[i].signature.nonce = signLog[i].nonce
  /\ \A i, j \in DOMAIN signLog :
       ( signLog[i].hash = signLog[j].hash /\ signLog[i].nonce # signLog[j].nonce )
       => signLog[i].signature # signLog[j].signature
C17_Witness ==
  \E i, j \in DOMAIN signLog :
    signLog[i].hash = signLog[j].hash /\ signLog[i].nonce # signLog[j].nonce

\* the key/value pairs of a payload
Pairs(d) == { d.items[i] : i \in DOMAIN d.items }

\* C18: every payload with the key/value pairs of the hashed payload, in
\* whatever key order, has the decision_hash of the hashed payload.
C18_HashIgnoresKeyOrder ==
  ( pc = "digest" /\ report # None ) =>
    \A q \in PurePayloads :
      Pairs(q) = Pairs(Val(report)) => Some(_generate_decision_hash(q)) = decision_hash
C18_Witness ==
  /\ pc = "digest" /\ report # None
  /\ \E q \in PurePayloads :
       /\ q # Val(report) /\ Pairs(q) = Pairs(Val(report))
       /\ Some(_generate_decision_hash(q)) = decision_hash

\* C19: every decision logged in a governed pass with max_ppm at or above
\* the critical threshold carries severity Critical, whatever severity the
\* reasoner returned.
C19_CriticalPpmLoggedCritical ==
  /\ ( GovernedCritical /\ Submitted("log_decision") ) => severity = Some(SEVERITY_CRITICAL)
  /\ \A i \in DOMAIN decisions : decisions[i].severity = SEVERITY_CRITICAL

\* the severity string of the digested payload
DigestedSeverity == Get(Val(report), "severity")[3]

\* C20: safe and normal map to Safe (0), warning to Warning (1), critical and
\* emergency to Critical (2), in any letter case; every other string maps to
\* Warning (1).
C20_SeverityTable ==
  /\ SEVERITY_SAFE = 0 /\ SEVERITY_WARNING = 1 /\ SEVERITY_CRITICAL = 2
  /\ ( pc = "digest" /\ report # None /\ HasKey(Val(report), "severity") ) =>
       /\ DigestedSeverity \in { "safe", "SAFE", "normal", "Normal" } => severity = Some(0)
       /\ DigestedSeverity \in { "warning", "Warning" } => severity = Some(1)
       /\ DigestedSeverity \in { "critical", "Critical", "CRITICAL",
                                  "emergency", "Emergency" } => severity = Some(2)
       /\ DigestedSeverity \in { "high", "", "critical " } => severity = Some(1)
C20_Witness ==
  /\ pc = "digest" /\ report # None /\ HasKey(Val(report), "severity")
  /\ DigestedSeverity = "CRITICAL" /\ severity = Some(2)

\* C21: after log_decision the coordinator submits request_consensus with
\* proposal_hash equal to the logged decision_hash; it submits
\* cast_vote(request_id, approved = true) exactly when its own address is in
\* the crew member list, never casts a disapproving vote, and casts at most
\* one vote per request.
C21_ProposalIsLoggedHash ==
  /\ Submitted("request_consensus") => Confirmed("log_decision")
  /\ \A i \in DOMAIN requests :
       \E j \in DOMAIN decisions :
         /\ decisions[j].decision_hash = requests[i].proposal_hash
         /\ decisions[j].crew_id = requests[i].crew_id
C21_VotesExactlyWhenMember ==
  /\ Submitted("cast_vote") => in_crew /\ Confirmed("request_consensus")
  /\ pc = "poll" => (in_crew <=> Submitted("cast_vote"))
  /\ \A i \in DOMAIN voteLog : voteLog[i].approved
C21_OneVotePerRequest ==
  /\ \A i, j \in DOMAIN voteLog : i # j => voteLog[i].request_id # voteLog[j].request_id
  /\ Submitted("cast_vote") =>
       voteLog[Len(voteLog)].request_id = IdOfIndex(Len(requests))
C21_ConsensusRequestAndOwnVote ==
  /\ C21_ProposalIsLoggedHash
  /\ C21_VotesExactlyWhenMember
  /\ C21_OneVotePerRequest

\* position of the call of an operation among the calls of the pass
Pos(op) == CHOOSE i \in DOMAIN calls : calls[i].op = op
Before(op1, op2) == Submitted(op1) /\ Submitted(op2) => Pos(op1) < Pos(op2)
GovernanceOps == { "form_crew", "log_decision", "request_consensus", "cast_vote" }

\* C22: within a cycle log_decision is submitted only after form_crew was
\* confirmed in the same cycle, and with the crew_id form_crew returned;
\* request_consensus follows the confirmed log_decision, cast_vote follows
\* request_consensus, and has_consensus_passed is read after all of them.
C22_CycleOrder ==
  /\ \A i, j \in DOMAIN calls : calls[i].op = calls[j].op => i = j
  /\ Submitted("log_decision") =>
       /\ Confirmed("form_crew") /\ Before("form_crew", "log_decision")
       /\ formLog # << >> /\ formLog[Len(formLog)].crew_id = crew_id
       /\ formLog[Len(formLog)].timestamp = now
       /\ Truthy(crew_id)
       /\ Val(crew_id) = LedgerCrewId(crews, formLog[Len(formLog)].event_id)
       /\ \A i \in DOMAIN calls :
            calls[i].op = "log_decision" /\ Mined(calls[i].outcome)
              => decisions[Len(decisions)].crew_id = Val(crew_id)
  /\ Submitted("request_consensus") =>
       Confirmed("log_decision") /\ Before("log_decision", "request_consensus")
  /\ Submitted("cast_vote") =>
       Confirmed("request_consensus") /\ Before("request_consensus", "cast_vote")
  /\ consensus_passed # None =>
       /\ Confirmed("request_consensus")
       /\ in_crew => Confirmed("cast_vote")
       /\ \A i \in DOMAIN calls :
            calls[i].op \in GovernanceOps \/ (calls[i].op = "mark_executed" /\ i = Len(calls))
  /\ pc \in { "form", "reason", "validate", "request", "vote", "poll" } => consensus_passed = None
C22_Witness ==
  /\ pc = "done" /\ consensus_passed # None
  /\ Confirmed("form_crew") /\ Confirmed("log_decision")
  /\ Confirmed("request_consensus") /\ Confirmed("cast_vote")

\* C23: the crew_id, decision_id and request_id returned by form_crew,
\* log_decision and request_consensus are always the ids carried by the
\* ledger's event of that confirmed transaction; a confirmed receipt without
\* the event gives no id (an explicit error path), never an id such as 0.
C23_ReturnedIdsAreLedgerIds ==
  /\ \A i \in DOMAIN formLog :
       formLog[i].crew_id # None =>
         /\ HasCrew(crews, formLog[i].event_id)
         /\ Val(formLog[i].crew_id) = LedgerCrewId(crews, formLog[i].event_id)
  /\ logged_id # None =>
       /\ LedgerHasDecision(Val(logged_id))
       /\ decisions[IndexOfId(Val(logged_id))].decision_hash = Val(decision_hash)
       /\ Val(logged_id) = IdOfIndex(Len(decisions))
  /\ request_id # None =>
       /\ LedgerHasRequest(Val(request_id))
       /\ Val(request_id) = IdOfIndex(Len(requests))

\* the call appended by this step, if it is a call of op
NewCall(op) == Len(calls') = Len(calls) + 1 /\ calls'[Len(calls')].op = op

\* C24: a decision's executed flag changes only from false to true and at
\* most once: mark_executed is submitted at most once per decision_id, for a
\* decision that is on the ledger and was logged in this pass, and once
\* executed = true no later operation changes any field of the decision.
C24_ExecutedOnce ==
  [][ /\ \A i \in DOMAIN decisions :
           /\ i \in DOMAIN decisions'
           /\ decisions[i].executed => decisions'[i] = decisions[i]
           /\ decisions'[i] # decisions[i] =>
                decisions'[i] = [decisions[i] EXCEPT !.executed = TRUE]
      /\ NewCall("mark_executed") =>
           /\ ~Submitted("mark_executed")
           /\ decision_id # None
           /\ LedgerHasDecision(Val(decision_id))
           /\ ~decisions[IndexOfId(Val(decision_id))].executed
           /\ IndexOfId(Val(decision_id)) = Len(decisions)
           /\ decisions[Len(decisions)].decision_hash = Val(decision_hash)
    ]_vars
C24_Witness ==
  /\ \E i \in DOMAIN decisions : decisions[i].executed /\ i < Len(decisions)
  /\ Confirmed("mark_executed")

\* the positions of the loop that are between two cycles: before a pass
\* starts (the sleep) and after run_detection_... returned or raised
BetweenCycles == { "idle", "done" }

\* C25: an interrupt delivered to run_monitoring_loop takes effect only
\* between cycles: a cycle that has submitted form_crew runs to its end
\* before the loop stops, so the loop never stops with a crew formed in the
\* current cycle and the cycle's decision logging not yet reached.
C25_InterruptOnlyBetweenCycles ==
  pc = "stopped" /\ Submitted("form_crew") => interrupted_at \in BetweenCycles

\* the crews the ledger holds for the event of a formation call
CrewsOfEvent(f) ==
  { k \in DOMAIN crews : crews[k][4] = f.node_id /\ Bucket(crews[k][2]) = Bucket(f.timestamp) }

\* C26: under any interleaving of form_crew attempts by several agents that
\* detect the same event, exactly one crew exists on the ledger for that
\* event and every agent obtains that crew's id.
C26_OneCrewForAllAgents ==
  \A i, j \in DOMAIN formLog :
    ( /\ formLog[i].agent # formLog[j].agent
      /\ SameEvent(formLog[i], formLog[j])
      /\ formLog[i].outcome = "confirmed" /\ formLog[j].outcome = "confirmed" )
    => /\ Cardinality(CrewsOfEvent(formLog[i])) = 1
       /\ formLog[i].crew_id = formLog[j].crew_id

\* C27: the nonce sign_decision embeds equals the signer's on-chain nonce at
\* the moment the ledger verifies the log_decision that carries the
\* signature, under every interleaving with other parties' transactions: a
\* freshly signed decision is never rejected as stale.
C27_FreshSignatureNeverStale == \A i \in DOMAIN signLog : ~signLog[i].stale

\* the step in which send_email_alert raises
EmailFails == notified' /\ ~notified /\ faults' = faults + 1

\* C28: if send_email_alert raises, the pass still returns normally with
\* alert_sent = false and with blockchain_info carrying the crew_id, the
\* decision_id and the consensus outcome recorded before the failure, and the
\* records written to the ledger are left unchanged.
C28_EmailFailureKeepsRecord ==
  [][ EmailFails =>
        /\ pc' = "done"
        /\ returned' # None
        /\ ~Val(returned').alert_sent
        /\ Val(returned').blockchain_info.crew_id = crew_id
        /\ Truthy(decision_id) =>
             /\ Val(returned').blockchain_info.decision_id = decision_id
             /\ Val(returned').blockchain_info.consensus_passed = consensus_passed
        /\ UNCHANGED << ledgerVars, calls >>
    ]_vars
C28_Witness ==
  /\ pc = "done" /\ notified
  /\ returned # None /\ ~Val(returned).alert_sent
  /\ Truthy(Val(returned).blockchain_info.crew_id)
  /\ Truthy(Val(returned).blockchain_info.decision_id)
  /\ Val(returned).blockchain_info.consensus_passed # None

\* C29: validate_crew_formation, validate_critical_decision and
\* mark_action_executed never let the exception of a ledger call escape to
\* their caller: every ledger failure, a failing is_critical read included,
\* comes back as a result, so every pass that ends has returned.
C29_NoLedgerExceptionEscapes ==
  /\ pc = "done" => returned # None
  /\ \A i \in DOMAIN formLog :
       formLog[i].outcome # "confirmed" => ~formLog[i].success /\ formLog[i].crew_id = None

\* C30: get_governance_thresholds returns the cached default thresholds
\* instead of failing when the ledger is unreachable, and every result that
\* does not come from a fresh ledger read is flagged stale = true.
C30_ThresholdsFallBackAndFlagStale ==
  thresholds # None =>
    /\ ~Val(thresholds).raised
    /\ Val(thresholds).values # None
    /\ ~Val(thresholds).fresh => Val(thresholds).stale

\* the state-changing calls whose arguments come from an earlier call's result
DependentOps == { "log_decision", "request_consensus", "cast_vote", "mark_executed" }

\* C31: after every confirmed state-changing ledger call the coordinator
\* reads the ledger again before it issues the next dependent call: between a
\* confirmed call and the dependent call submitted next there is at least one
\* ledger read.
C31_ReadBackBeforeDependentCall ==
  \A i \in DOMAIN calls :
    (i > 1 /\ calls[i].op \in DependentOps /\ calls[i - 1].outcome = "confirmed")
      => \E k \in DOMAIN reads : reads[k].after = i - 1

\* the positions inside a detection cycle
InCycle == pc \notin { "idle", "done", "stopped" }
PollReads == { k \in DOMAIN reads : reads[k].op = "has_consensus_passed" }

\* C32: every detection cycle terminates when each ledger call returns or
\* raises: a cycle that has started reaches its end, it reads
\* has_consensus_passed at most once, and it submits each of form_crew,
\* log_decision, request_consensus, cast_vote and mark_executed at most once.
C32_CycleTerminates ==
  /\ [](Cardinality(PollReads) <= 1)
  /\ [](\A op \in GovernanceOps \cup { "mark_executed" } :
          Cardinality({ i \in DOMAIN calls : calls[i].op = op }) <= 1)
  /\ (InCycle ~> pc = "done")

C32_Witness ==
  /\ pc = "done" /\ Cardinality(PollReads) = 1
  /\ Confirmed("form_crew") /\ Confirmed("log_decision")
  /\ Confirmed("request_consensus") /\ Confirmed("cast_vote")
  /\ Confirmed("mark_executed")

\* the integrator exists and is in simulation mode
Disabled == integrator # None /\ ~Val(integrator).enable_blockchain

\* C33: when blockchain integration is disabled, validate_crew_formation and
\* validate_critical_decision return (True, None, None), mark_action_executed
\* returns None, and no ledger call is made: no transaction is submitted, no
\* read is made and the ledger stays as it was.
C33_DisabledMakesNoLedgerCall ==
  Disabled =>
    /\ calls = << >> /\ reads = << >>
    /\ crews = << >> /\ decisions = << >> /\ requests = << >> /\ nonce = 0
    /\ direct # None =>
         /\ ~Val(direct).raised
         /\ Val(direct).method \in { "validate_crew_formation", "validate_critical_decision" }
              => Val(direct).result = << TRUE, None, None >>
         /\ Val(direct).method = "mark_action_executed" => Val(direct).result = None

C33_Witness ==
  /\ Disabled /\ private_key = "invalid"
  /\ direct # None /\ Val(direct).method = "validate_critical_decision"
  /\ pc = "done" /\ passes = 1

\* C34: whenever log_decision is confirmed by the ledger in a cycle, the
\* result of that cycle (the return of validate_critical_decision and
\* blockchain_info) carries that decision_id, also when the later
\* request_consensus, cast_vote or has_consensus_passed call fails.
C34_ConfirmedDecisionIdIsReturned ==
  (pc = "done" /\ returned # None /\ Confirmed("log_decision")) =>
    /\ decision_id = logged_id
    /\ Val(returned).blockchain_info.decision_id = logged_id

\* the formation of this pass, as validate_crew_formation returned it
ThisFormation == formLog[Len(formLog)]
\* this pass formed a crew and got the id the ledger gave it
FormedOnLedger ==
  /\ Confirmed("form_crew") /\ formLog # << >>
  /\ ThisFormation.timestamp = now /\ ThisFormation.agent = "self"
  /\ ThisFormation.success /\ ThisFormation.crew_id # None
  /\ HasCrew(crews, ThisFormation.event_id)
  /\ Val(ThisFormation.crew_id) = LedgerCrewId(crews, ThisFormation.event_id)

\* this pass logged a decision and got the id the ledger gave it
LoggedOnLedger ==
  /\ Confirmed("log_decision") /\ logged_id # None
  /\ LedgerHasDecision(Val(logged_id))
  /\ Val(logged_id) = IdOfIndex(Len(decisions))

\* C35: a crew_id or decision_id equal to 0 that the ledger assigned is
\* handled like any other id: the pass keeps the crew_id the ledger gave and
\* records it in blockchain_info, goes on to validate the decision for it,
\* and a decision_id returned with a consensus outcome is recorded and, once
\* the alert is sent, marked executed.
C35_ZeroIdHandledLikeAnyId ==
  /\ (pc \notin { "idle", "form" } /\ FormedOnLedger) => crew_id = ThisFormation.crew_id
  /\ (pc = "done" /\ returned # None /\ FormedOnLedger) =>
       /\ Val(returned).blockchain_info.crew_id = ThisFormation.crew_id
       /\ \E k \in DOMAIN reads : reads[k].op = "is_critical"
  /\ (pc = "done" /\ returned # None /\ consensus_passed # None /\ LoggedOnLedger) =>
       /\ Val(returned).blockchain_info.decision_id = logged_id
       /\ Val(returned).alert_sent => Submitted("mark_executed")

\* the anomalous readings of the pass that carry no trace id
Untraced(rs) == SelectSeq(rs, LAMBDA r : r.methane_ppm >= ABSOLUTE_EMERGENCY_PPM
                                         /\ r.trace_id = "" /\ r.id = "")

\* C36: in an ablation detector a reading whose trace id was accepted less
\* than ALERT_COOLDOWN_SECONDS ago is not accepted again: two acceptances of
\* one trace id are at least ALERT_COOLDOWN_SECONDS apart, the map holds the
\* time of the last one, and readings without a trace id are accepted on
\* every pass.
C36_CooldownPerTraceId ==
  /\ \A i, j \in DOMAIN acceptances :
       (i < j /\ acceptances[i].trace_id = acceptances[j].trace_id)
         => acceptances[j].at - acceptances[i].at >= ALERT_COOLDOWN_SECONDS
  /\ \A t \in TraceIds :
       IF \E i \in DOMAIN acceptances : acceptances[i].trace_id = t
       THEN /\ _last_alert_ts[t] # None
            /\ \E i \in DOMAIN acceptances :
                 acceptances[i].trace_id = t /\ acceptances[i].at = Val(_last_alert_ts[t])
            /\ \A i \in DOMAIN acceptances :
                 acceptances[i].trace_id = t => acceptances[i].at <= Val(_last_alert_ts[t])
       ELSE _last_alert_ts[t] = None
  /\ pc = "abl_done" => Untraced(readings) = Untraced(new_anomalies)

\* a trace id accepted twice, the second time exactly when the cooldown ended,
\* in a pass that also accepted a reading without a trace id
C36_Witness ==
  /\ pc = "abl_done"
  /\ \E i, j \in DOMAIN acceptances :
       /\ i < j /\ acceptances[i].trace_id = acceptances[j].trace_id
       /\ acceptances[j].at - acceptances[i].at = ALERT_COOLDOWN_SECONDS
  /\ Untraced(new_anomalies) # << >>

\* a pass of an ablation detector that returned alert_sent = false
AblationPassUnsent ==
  pc = "abl_idle" /\ pc' = "abl_done" /\ ~Val(returned').alert_sent

\* C37: in an ablation detector a trace id is put into or refreshed in the
\* cooldown map only when an alert for it was delivered: a pass that returns
\* alert_sent = false leaves the cooldown map unchanged.
C37_MapChangesOnlyOnDelivery ==
  [][AblationPassUnsent => _last_alert_ts' = _last_alert_ts]_vars

\* a pass that ended with an exception: run_detection_... returned nothing
FailedPass == pc = "done" /\ returned = None

EarlierVotes == SubSeq(votes, 1, Len(votes) - 1)

\* C39: a verdict of PASS or FAIL is stable: once evaluate yields PASS (or
\* FAIL) it yields the same verdict after any further vote of an eligible
\* voter who has not voted yet, and the conditions of PASS and of FAIL never
\* both hold for one vote log.
C39_VerdictStable ==
  /\ [][ (pc = "evaluate" /\ verdict \in { "PASS", "FAIL" }) => verdict' = verdict ]_vars
  /\ [](pc = "evaluate" =>
          ~( /\ PassCondition(Approvals, Disapprovals, total_eligible, percentage)
             /\ \/ FailCondition(Approvals, Disapprovals, total_eligible, percentage)
                \/ EmptyDenominatorFails(total_eligible) ))

\* PASS was reached and a disapproval arrived after it; PASS stands
C39_Witness ==
  /\ pc = "evaluate" /\ Len(votes) >= 2 /\ total_eligible > 0
  /\ ~votes[Len(votes)].approved
  /\ evaluate(EarlierVotes, total_eligible, percentage) = "PASS"
  /\ verdict = "PASS"

\* C40: for every constructed CrewBlockchainIntegrator enable_blockchain is
\* true exactly when client is an initialised BlockchainClient (client is
\* None exactly when enable_blockchain is false), so no method dereferences a
\* None client: every ledger call and read is made with a client.
C40_EnabledIffClient ==
  /\ integrator # None =>
       /\ Val(integrator).enable_blockchain <=> Val(integrator).client # None
       /\ Val(integrator).client \in { None, Some("BlockchainClient") }
  /\ enable_blockchain => integrator # None /\ Val(integrator).client # None
  /\ (calls # << >> \/ reads # << >>) =>
       integrator # None /\ Val(integrator).client # None
  /\ (integrator # None /\ thresholds # None) => Val(integrator).client # None
  /\ direct # None => ~Val(direct).raised

\* an integrator that fell back to simulation mode after a failed client
\* initialisation, and one of its methods was called
C40_Witness ==
  /\ integrator # None /\ ~Val(integrator).enable_blockchain
  /\ private_key = "invalid" /\ direct # None /\ pc = "idle" /\ passes = 1

====
